---- MODULE Spec2Model ----
(***************************************************************************)
(* A model of soso.state: Model (state.py), its notification trie (Node),  *)
(* the recorded operations (GetAttr, SetAttr, GetItem, SetItem, Call) and  *)
(* the recording Proxy.                                                    *)
(*                                                                         *)
(* Python values are tagged records [k |-> <type>, v |-> <payload>], so    *)
(* that values of different types can be compared.  Keys of operations     *)
(* are strings; the strings of IndexKeys stand for the int keys 0, 1, ...  *)
(* of list subscripts.                                                     *)
(***************************************************************************)
EXTENDS Integers, Sequences, FiniteSets, TLC

VARIABLES
    current_state,  \* Model.__current_state
    nodes,          \* the trie below Model.__root_node: its nodes in creation order
    subs,           \* the callbacks connected to the nodes' events, in connection order
    held,           \* the value the caller holds from the last snapshot / restore call
    shared,         \* paths of current_state whose object is the very object `held`
    steps,          \* API calls made so far
    last,           \* the last API call: its name, input, outcome and the state before it
    emits,          \* channel emissions of the last API call, in order
    calls           \* callback invocations of the last API call, in order

vars == <<current_state, nodes, subs, held, shared, steps, last, emits, calls>>

(***************************************************************************)
(* Bounds of the model.                                                    *)
(***************************************************************************)
\* API calls in one behaviour
MaxSteps == 3
\* length a list of the state may grow to through append
MaxLen == 2
\* callbacks connected through observe_property in one behaviour
MaxObservers == 2

(***************************************************************************)
(* Python values.                                                          *)
(***************************************************************************)
None == [k |-> "NoneType", v |-> "None"]
Str(s) == [k |-> "str", v |-> s]
Float(s) == [k |-> "float", v |-> s]
NaN == Float("nan")
List(s) == [k |-> "list", v |-> s]
\* a dict with string keys: f is a function from its keys to its values
Dict(f) == [k |-> "dict", v |-> f]
Tuple(s) == [k |-> "tuple", v |-> s]
\* a bound method of a list, or the method-wrapper __call__ of one
Method(name) == [k |-> "method", v |-> name]
\* dataclass Person of the README example, reduced to one field
Person(last_name) == [k |-> "Person", v |-> [last_name |-> last_name]]
\* dataclass AppState of the README example: a list of Persons and two scalar fields
AppState(employees, count, ratio) ==
    [k |-> "AppState", v |-> [employees |-> employees, count |-> count, ratio |-> ratio]]

\* an exception raised by an operation, in place of its result
Raise(name) == [k |-> "raise", v |-> name]
IsRaise(x) == x.k = "raise"

IsDataclass(obj) == obj.k \in {"Person", "AppState"}
ListMethods == {"append", "pop", "clear"}
DictMethods == {"update", "clear"}

\* the subscripts of a list, as keys: IndexKeys[i + 1] stands for the int i
IndexKeys == <<"0", "1", "2">>
IsIndexKey(key) == \E i \in 1..Len(IndexKeys) : IndexKeys[i] = key
IndexOf(key) == CHOOSE i \in 1..Len(IndexKeys) : IndexKeys[i] = key

\* Python's x != y: values of different types differ, NaN differs from itself
PyNe(x, y) ==
    IF x.k # y.k THEN TRUE
    ELSE IF x.k = "float" /\ (x.v = "nan" \/ y.v = "nan") THEN TRUE
    ELSE x.v # y.v

\* math.isnan(x) raises TypeError when x is no number; otherwise it is IsNaN(x)
IsNaNRaises(x) == x.k # "float"
IsNaN(x) == x.k = "float" /\ x.v = "nan"

\* getattr(obj, key)
PyGetAttr(obj, key) ==
    IF IsRaise(obj) THEN obj
    ELSE IF IsDataclass(obj) /\ key \in DOMAIN obj.v THEN obj.v[key]
    ELSE IF obj.k = "list" /\ key \in ListMethods THEN Method(key)
    ELSE IF obj.k = "dict" /\ key \in DictMethods THEN Method(key)
    ELSE IF obj.k = "method" /\ key = "__call__" THEN Method("__call__")
    ELSE Raise("AttributeError")

\* obj[key]
PyGetItem(obj, key) ==
    IF IsRaise(obj) THEN obj
    ELSE IF obj.k = "list" THEN
        IF IsIndexKey(key) /\ IndexOf(key) <= Len(obj.v) THEN obj.v[IndexOf(key)]
        ELSE IF IsIndexKey(key) THEN Raise("IndexError")
        ELSE Raise("TypeError")
    ELSE IF obj.k = "dict" THEN
        IF key \in DOMAIN obj.v THEN obj.v[key] ELSE Raise("KeyError")
    ELSE Raise("TypeError")

(***************************************************************************)
(* Objects of the state are referred to by the keys that lead to them from *)
(* the state's root: a dataclass is entered by attribute, a list or a     *)
(* dict by subscript.                                                      *)
(***************************************************************************)
Child(obj, key) ==
    IF IsRaise(obj) THEN obj
    ELSE IF obj.k \in {"list", "dict"} THEN PyGetItem(obj, key)
    ELSE IF IsDataclass(obj) THEN PyGetAttr(obj, key)
    ELSE Raise("AttributeError")

RECURSIVE Resolve(_, _)
Resolve(obj, path) ==
    IF path = <<>> THEN obj ELSE Resolve(Child(obj, Head(path)), Tail(path))

\* obj with its slot `key` bound to value: setattr(obj, key, value) / obj[key] = value
SetSlot(obj, key, value) ==
    IF obj.k = "list" THEN [obj EXCEPT !.v[IndexOf(key)] = value]
    ELSE IF obj.k = "dict" THEN
        [obj EXCEPT !.v = [x \in DOMAIN obj.v \cup {key} |->
                              IF x = key THEN value ELSE obj.v[x]]]
    ELSE [obj EXCEPT !.v[key] = value]

\* the state after the in-place write of value into the slot at the (non-empty) path
RECURSIVE Store(_, _, _)
Store(obj, path, value) ==
    IF Len(path) = 1 THEN SetSlot(obj, path[1], value)
    ELSE SetSlot(obj, Head(path), Store(Child(obj, Head(path)), Tail(path), value))

IsPrefix(p, q) == Len(p) <= Len(q) /\ SubSeq(q, 1, Len(p)) = p
IsProperPrefix(p, q) == Len(p) < Len(q) /\ IsPrefix(p, q)
Front(s) == SubSeq(s, 1, Len(s) - 1)
Last(s) == s[Len(s)]

(***************************************************************************)
(* The operations a Proxy records.  kwargs of Call are always empty here.  *)
(***************************************************************************)
GetAttr(key) == [op |-> "GetAttr", key |-> key, value |-> None]
SetAttr(key, value) == [op |-> "SetAttr", key |-> key, value |-> value]
GetItem(key) == [op |-> "GetItem", key |-> key, value |-> None]
SetItem(key, value) == [op |-> "SetItem", key |-> key, value |-> value]
Call(args) == [op |-> "Call", key |-> "__call__", value |-> Tuple(args)]

\* the keys of a sequence of operations: the path of the trie node they lead to
RECURSIVE Keys(_)
Keys(ops) == IF ops = <<>> THEN <<>> ELSE <<Head(ops).key>> \o Keys(Tail(ops))

\* op.get_value(obj) of the five operation classes
get_value(op, obj) ==
    IF op.op \in {"GetAttr", "SetAttr"} THEN PyGetAttr(obj, op.key)
    ELSE IF op.op \in {"GetItem", "SetItem"} THEN PyGetItem(obj, op.key)
    ELSE PyGetAttr(obj, "__call__")

(***************************************************************************)
(* A path function is the sequence of accesses it makes on its argument:   *)
(* [acc |-> "getattr" | "setattr" | "getitem" | "setitem" | "call", key,   *)
(* value].  Proxy appends one operation per access to its single log and   *)
(* returns itself from every read.                                         *)
(***************************************************************************)
ReadAttr(key) == [acc |-> "getattr", key |-> key, value |-> None]
WriteAttr(key, value) == [acc |-> "setattr", key |-> key, value |-> value]
ReadItem(key) == [acc |-> "getitem", key |-> key, value |-> None]
WriteItem(key, value) == [acc |-> "setitem", key |-> key, value |-> value]
Invoke(args) == [acc |-> "call", key |-> "__call__", value |-> Tuple(args)]

\* Proxy.__getattr__ / __setattr__ / __getitem__ / __setitem__ / __call__ on the log
ProxyAccess(log, a) ==
    IF a.acc = "getattr" THEN Append(log, GetAttr(a.key))
    ELSE IF a.acc = "setattr" THEN Append(log, SetAttr(a.key, a.value))
    ELSE IF a.acc = "getitem" THEN Append(log, GetItem(a.key))
    ELSE IF a.acc = "setitem" THEN Append(log, SetItem(a.key, a.value))
    ELSE Append(log, Call(a.value.v))

\* func(proxy) on a Proxy whose log is `log`: the log afterwards
RECURSIVE Record(_, _)
Record(log, func) ==
    IF func = <<>> THEN log ELSE Record(ProxyAccess(log, Head(func)), Tail(func))

(***************************************************************************)
(* execute.  The object an operation is applied to is a cursor: "ref", the *)
(* object of the state at `path`; "bound", the method val of the list at   *)
(* `path`; "val", a value that is no part of the state (None, or what a    *)
(* call returned).  In this universe such a value is never a list.         *)
(***************************************************************************)
Ref(path) == [kind |-> "ref", path |-> path, val |-> None]
Bound(path, name) == [kind |-> "bound", path |-> path, val |-> Method(name)]
Val(v) == [kind |-> "val", path |-> <<>>, val |-> v]

Deref(state, cur) == IF cur.kind = "ref" THEN Resolve(state, cur.path) ELSE cur.val

\* what execute returns (obj, changed), the state it leaves, the exception it raised
Returned(state, obj, changed) ==
    [state |-> state, obj |-> obj, changed |-> changed, raised |-> None]
Raised(state, exc) ==
    [state |-> state, obj |-> Val(None), changed |-> FALSE, raised |-> exc]

\* the cursor of getattr(obj, key) / obj[key], its value being v
Enter(cur, key, v) ==
    IF cur.kind = "ref" THEN
        IF v.k = "method" THEN Bound(cur.path, key) ELSE Ref(cur.path \o <<key>>)
    ELSE IF cur.kind = "bound" THEN cur
    ELSE Val(v)

\* an execute that read v: obj becomes v, nothing has changed
Read(state, cur, key, v) ==
    IF IsRaise(v) THEN Raised(state, v) ELSE Returned(state, Enter(cur, key, v), FALSE)

GetAttr_execute(op, state, cur) == Read(state, cur, op.key, PyGetAttr(Deref(state, cur), op.key))

GetItem_execute(op, state, cur) == Read(state, cur, op.key, PyGetItem(Deref(state, cur), op.key))

\* changed = curr_value != value, and for a float curr_value:
\* changed = not isnan(curr_value) or not isnan(value), which can raise TypeError
\* a write that reports changed = True whatever it overwrites, as execute_raw does
ChangedRaw(curr_value, value) == TRUE
ChangedRaises(curr_value, value) ==
    PyNe(curr_value, value) /\ curr_value.k = "float" /\ IsNaN(curr_value)
        /\ IsNaNRaises(value)
Changed(curr_value, value) ==
    IF PyNe(curr_value, value) /\ curr_value.k = "float"
    THEN ~IsNaN(curr_value) \/ ~IsNaN(value)
    ELSE PyNe(curr_value, value)

\* the state after setattr(obj, key, value) / obj[key] = value on the cursor's object
Write(state, cur, key, value) ==
    IF cur.kind = "ref" THEN Store(state, cur.path \o <<key>>, value) ELSE state

\* SetAttr.execute(obj), curr_value being getattr(obj, self.key)
SetAttrFrom(op, state, cur, obj, curr_value) ==
    IF IsRaise(curr_value) THEN Raised(state, curr_value)
    ELSE IF ChangedRaises(curr_value, op.value) THEN Raised(state, Raise("TypeError"))
    ELSE IF ~Changed(curr_value, op.value) THEN Returned(state, Val(None), FALSE)
    ELSE IF ~IsDataclass(obj) THEN Raised(state, Raise("AttributeError"))
    ELSE Returned(Write(state, cur, op.key, op.value), Val(None), TRUE)
SetAttrOn(op, state, cur, obj) == SetAttrFrom(op, state, cur, obj, PyGetAttr(obj, op.key))
SetAttr_execute(op, state, cur) == SetAttrOn(op, state, cur, Deref(state, cur))

\* SetItem.execute(obj), curr_value being obj[self.key]: a KeyError means changed
SetItemFrom(op, state, cur, curr_value) ==
    IF curr_value = Raise("KeyError")
    THEN Returned(Write(state, cur, op.key, op.value), Val(None), TRUE)
    ELSE IF IsRaise(curr_value) THEN Raised(state, curr_value)
    ELSE IF ChangedRaises(curr_value, op.value) THEN Raised(state, Raise("TypeError"))
    ELSE IF ~Changed(curr_value, op.value) THEN Returned(state, Val(None), FALSE)
    ELSE Returned(Write(state, cur, op.key, op.value), Val(None), TRUE)
SetItem_execute(op, state, cur) ==
    SetItemFrom(op, state, cur, PyGetItem(Deref(state, cur), op.key))

\* d.update(other) and d.clear() of a dict d of the state
CallDictMethod(name, args, d) ==
    IF name = "update" /\ Len(args) = 1 /\ args[1].k = "dict"
    THEN [lst |-> Dict([x \in DOMAIN d.v \cup DOMAIN args[1].v |->
                           IF x \in DOMAIN args[1].v THEN args[1].v[x] ELSE d.v[x]]),
          ret |-> None]
    ELSE IF name = "clear" /\ Len(args) = 0
    THEN [lst |-> Dict([x \in {} |-> None]), ret |-> None]
    ELSE [lst |-> d, ret |-> Raise("TypeError")]
\* obj(*args): the methods of a list or dict lst of the state; anything else here is
\* not callable
CallMethod(name, args, lst) ==
    IF lst.k = "dict" THEN CallDictMethod(name, args, lst)
    ELSE IF name = "append" /\ Len(args) = 1 THEN [lst |-> List(Append(lst.v, args[1])), ret |-> None]
    ELSE IF name = "pop" /\ Len(args) = 0 THEN
        IF lst.v = <<>> THEN [lst |-> lst, ret |-> Raise("IndexError")]
        ELSE [lst |-> List(Front(lst.v)), ret |-> Last(lst.v)]
    ELSE IF name = "clear" /\ Len(args) = 0 THEN [lst |-> List(<<>>), ret |-> None]
    ELSE [lst |-> lst, ret |-> Raise("TypeError")]
Called(state, cur, m) ==
    IF IsRaise(m.ret) THEN Raised(state, m.ret)
    ELSE Returned(Store(state, cur.path, m.lst), Val(m.ret), TRUE)
Call_execute(op, state, cur) ==
    IF cur.kind # "bound" THEN Raised(state, Raise("TypeError"))
    ELSE Called(state, cur, CallMethod(cur.val.v, op.value.v, Resolve(state, cur.path)))

execute(op, state, cur) ==
    IF op.op = "GetAttr" THEN GetAttr_execute(op, state, cur)
    ELSE IF op.op = "SetAttr" THEN SetAttr_execute(op, state, cur)
    ELSE IF op.op = "GetItem" THEN GetItem_execute(op, state, cur)
    ELSE IF op.op = "SetItem" THEN SetItem_execute(op, state, cur)
    ELSE Call_execute(op, state, cur)

(***************************************************************************)
(* The trie.  A Node is identified by the keys that lead to it from the    *)
(* root node; `nodes` lists the nodes other than the root in the order of  *)
(* their creation, which is the order of every children dict.              *)
(***************************************************************************)
HasNode(ns, path) == \E i \in 1..Len(ns) : ns[i].path = path

\* root = root.children[op.key]; root.op = op
EnterNode(ns, path, op) ==
    IF HasNode(ns, path)
    THEN [i \in 1..Len(ns) |-> IF ns[i].path = path THEN [ns[i] EXCEPT !.op = op]
                                                     ELSE ns[i]]
    ELSE Append(ns, [path |-> path, op |-> op])

\* Model.__get_node_for_ops: the trie after the walk; the node reached is Keys(ops)
RECURSIVE NodesAlong(_, _, _)
NodesAlong(ns, ops, i) ==
    IF i > Len(ops) THEN ns
    ELSE NodesAlong(EnterNode(ns, Keys(SubSeq(ops, 1, i)), ops[i]), ops, i + 1)
get_node_for_ops(ns, ops) == NodesAlong(ns, ops, 1)

\* Model.__get_value_for_ops
RECURSIVE ValueAlong(_, _)
ValueAlong(root, ops) ==
    IF ops = <<>> THEN root ELSE ValueAlong(get_value(Head(ops), root), Tail(ops))
get_value_for_ops(state, ops) == ValueAlong(state, ops)

\* node.children.items(): the children of the node at path, in insertion order
ChildrenOf(ns, path) ==
    SelectSeq(ns, LAMBDA n : Len(n.path) = Len(path) + 1 /\ IsPrefix(path, n.path))

(***************************************************************************)
(* Event (soso.state.event): connect appends a callback, emit calls the    *)
(* connected callbacks in connection order.                                *)
(***************************************************************************)
Event_connect(ss, path, cb) == Append(ss, [cb |-> cb, path |-> path, connected |-> TRUE])

RECURSIVE Event_emit(_, _, _)
Event_emit(ss, path, value) ==
    IF ss = <<>> THEN <<>>
    ELSE (IF Head(ss).path = path /\ Head(ss).connected
          THEN <<[cb |-> Head(ss).cb, value |-> value]>> ELSE <<>>)
         \o Event_emit(Tail(ss), path, value)

\* what a call has emitted so far: n = [nodes, emits, calls, raised]
Quiet(ns) == [nodes |-> ns, emits |-> <<>>, calls |-> <<>>, raised |-> None]

\* node.event.emit(value) for the node at path
Emit(n, ss, path, value) ==
    [n EXCEPT !.emits = Append(@, [path |-> path, value |-> value]),
              !.calls = @ \o Event_emit(ss, path, value)]

\* Model.__fire_all_child_events(node, parent), node being the node at path
RECURSIVE fire_all_child_events(_, _, _, _)
RECURSIVE FireChildren(_, _, _, _)
\* a cascade that emits on the children of the node and stops there
FireChildShallow(n, ss, child_node, child_value) ==
    IF IsRaise(child_value) THEN n
    ELSE Emit(n, ss, child_node.path, child_value)
FireChild(n, ss, child_node, child_value) ==
    IF IsRaise(child_value) THEN n
    ELSE fire_all_child_events(Emit(n, ss, child_node.path, child_value),
                               ss, child_node.path, child_value)
FireChildren(n, ss, children, parent) ==
    IF children = <<>> THEN n
    ELSE FireChildren(FireChild(n, ss, Head(children),
                                get_value(Head(children).op, parent)),
                      ss, Tail(children), parent)
fire_all_child_events(n, ss, path, parent) ==
    FireChildren(n, ss, ChildrenOf(n.nodes, path), parent)

(***************************************************************************)
(* Model._update_state.                                                    *)
(***************************************************************************)
\* the held object after execute has run op on cur: a write below a shared path, or
\* a method call on a list at or below one, changes the object the caller holds
HeldAfter(al, op, cur, state) ==
    LET target == IF op.op = "Call" THEN cur.path ELSE cur.path \o <<op.key>>
        hit == {p \in al.shared : IF op.op = "Call" THEN IsPrefix(p, target)
                                  ELSE IsProperPrefix(p, target)}
    IN  IF cur.kind = "val" \/ hit = {} THEN al.held
        ELSE Resolve(state, CHOOSE p \in hit : TRUE)

\* the shared paths after it: a slot at or above a shared path that is bound anew,
\* and an element a list has dropped, no longer hold the caller's object
SharedAfter(al, op, cur, state) ==
    IF cur.kind = "val" THEN al.shared
    ELSE IF op.op = "Call"
    THEN {p \in al.shared : IsProperPrefix(cur.path, p) => ~IsRaise(Resolve(state, p))}
    ELSE {p \in al.shared : ~IsPrefix(cur.path \o <<op.key>>, p)}

AliasAfter(al, op, cur, r) ==
    IF IsRaise(r.raised) \/ ~r.changed THEN al
    ELSE [held |-> HeldAfter(al, op, cur, r.state),
          shared |-> SharedAfter(al, op, cur, r.state)]

\* the loop over ops (lines 180-191); its result is
\* [state, alias, stmts, curr_stmt, raised].  ApplyOp is one iteration: r is what
\* op.execute(obj) did, stmt is curr_stmt after the append
RECURSIVE ApplyOps(_, _, _, _, _, _, _)
\* an iteration that retains the statement whether or not its last op changed a value
ApplyOpRetaining(ops, rootops, al, obj, stmt, stmts, r) ==
    IF IsRaise(r.raised)
    THEN [state |-> r.state, alias |-> al, stmts |-> stmts, curr_stmt |-> stmt,
          raised |-> r.raised]
    ELSE IF Deref(r.state, r.obj) # None
    THEN ApplyOps(Tail(ops), rootops, r.state, AliasAfter(al, Head(ops), obj, r),
                  r.obj, stmt, stmts)
    ELSE IF IsRaise(get_value_for_ops(r.state, rootops))
    THEN [state |-> r.state, alias |-> al, stmts |-> stmts, curr_stmt |-> stmt,
          raised |-> get_value_for_ops(r.state, rootops)]
    ELSE ApplyOps(Tail(ops), rootops, r.state, AliasAfter(al, Head(ops), obj, r),
                  Ref(Keys(rootops)), <<>>, Append(stmts, stmt))
ApplyOp(ops, rootops, al, obj, stmt, stmts, r) ==
    IF IsRaise(r.raised)
    THEN [state |-> r.state, alias |-> al, stmts |-> stmts, curr_stmt |-> stmt,
          raised |-> r.raised]
    ELSE IF Deref(r.state, r.obj) # None
    THEN ApplyOps(Tail(ops), rootops, r.state, AliasAfter(al, Head(ops), obj, r),
                  r.obj, stmt, stmts)
    ELSE IF IsRaise(get_value_for_ops(r.state, rootops))
    THEN [state |-> r.state, alias |-> al, stmts |-> stmts, curr_stmt |-> stmt,
          raised |-> get_value_for_ops(r.state, rootops)]
    ELSE ApplyOps(Tail(ops), rootops, r.state, AliasAfter(al, Head(ops), obj, r),
                  Ref(Keys(rootops)), <<>>,
                  IF r.changed THEN Append(stmts, stmt) ELSE stmts)
ApplyOps(ops, rootops, state, al, obj, curr_stmt, stmts) ==
    IF ops = <<>>
    THEN [state |-> state, alias |-> al, stmts |-> stmts, curr_stmt |-> curr_stmt,
          raised |-> None]
    ELSE ApplyOp(ops, rootops, al, obj, Append(curr_stmt, Head(ops)), stmts,
                 execute(Head(ops), state, obj))

\* the loop `for op in ...: curr.append(op); node = ...; value = ...; node.event.emit(value)`
\* EmitPrefix is one iteration: n holds the trie after __get_node_for_ops(curr)
RECURSIVE EmitPrefixes(_, _, _, _, _)
EmitPrefix(n, ss, state, ops, i, value) ==
    IF IsRaise(value) THEN [n EXCEPT !.raised = value]
    ELSE EmitPrefixes(Emit(n, ss, Keys(SubSeq(ops, 1, i)), value), ss, state, ops, i + 1)
EmitPrefixes(n, ss, state, ops, i) ==
    IF i > Len(ops) \/ IsRaise(n.raised) THEN n
    ELSE EmitPrefix([n EXCEPT !.nodes = get_node_for_ops(n.nodes, SubSeq(ops, 1, i))],
                    ss, state, ops, i, get_value_for_ops(state, SubSeq(ops, 1, i)))

\* the loop over stmts (lines 215-227); n1 is n after the statement's prefixes
RECURSIVE EmitStmts(_, _, _, _)
\* a statement whose cascade starts at the root of the trie instead of its own node
EmitStmtFromRoot(n1, ss, state, stmts) ==
    IF IsRaise(n1.raised) THEN n1
    ELSE EmitStmts(fire_all_child_events(n1, ss, <<>>, state), ss, state, Tail(stmts))
EmitStmt(n1, ss, state, stmts) ==
    IF IsRaise(n1.raised) THEN n1
    ELSE EmitStmts(fire_all_child_events(n1, ss, Keys(Head(stmts)),
                                         get_value_for_ops(state, Head(stmts))),
                   ss, state, Tail(stmts))
EmitStmts(n, ss, state, stmts) ==
    IF stmts = <<>> \/ IsRaise(n.raised) THEN n
    ELSE EmitStmt(EmitPrefixes(n, ss, state, Head(stmts), 1), ss, state, stmts)

\* the outcome of a call of the Model: the state, the trie and the alias it leaves,
\* what it emitted, the exception it raised (or None), the statements it retained
Outcome(state, al, n, raised, stmts) ==
    [state |-> state, alias |-> al, nodes |-> n.nodes, emits |-> n.emits,
     calls |-> n.calls, raised |-> raised, stmts |-> stmts]

\* the outcome of an update whose notifications n have been emitted
Notified(a, n) == Outcome(a.state, a.alias, n, n.raised, a.stmts)

\* lines 193-227 of Model._update_state: a is the result of the loop over ops
Notify(a, rootops, ns, ss) ==
    IF IsRaise(a.raised) THEN Outcome(a.state, a.alias, Quiet(ns), a.raised, a.stmts)
    ELSE IF a.curr_stmt # <<>>
    THEN Outcome(a.state, a.alias, Quiet(ns), Raise("AssertionError"), a.stmts)
    ELSE IF a.stmts = <<>> THEN Outcome(a.state, a.alias, Quiet(ns), None, <<>>)
    ELSE Notified(a, EmitStmts(EmitPrefixes(Emit(Quiet(ns), ss, <<>>, a.state),
                                            ss, a.state, rootops, 1),
                               ss, a.state, a.stmts))

\* Model._update_state(root, func); root and func are path functions, rootops and
\* ops what they record
UpdateOps(rootops, ops, state, al, ns, ss) ==
    IF IsRaise(get_value_for_ops(state, rootops))
    THEN Outcome(state, al, Quiet(ns), get_value_for_ops(state, rootops), <<>>)
    ELSE Notify(ApplyOps(ops, rootops, state, al, Ref(Keys(rootops)), <<>>, <<>>),
                rootops, ns, ss)
Model_update_state(root, func, state, al, ns, ss) ==
    UpdateOps(Record(<<>>, root), Record(Record(<<>>, root), func), state, al, ns, ss)

\* Model.update_state(func)
update_state(func, state, al, ns, ss) == Model_update_state(<<>>, func, state, al, ns, ss)

\* Model.update_properties(**kwargs); kwargs is the sequence of its (key, value) items
RECURSIVE SetAttrs(_)
SetAttrs(kwargs) ==
    IF kwargs = <<>> THEN <<>>
    ELSE <<WriteAttr(Head(kwargs).key, Head(kwargs).value)>> \o SetAttrs(Tail(kwargs))
update_properties(kwargs, state, al, ns, ss) ==
    update_state(SetAttrs(kwargs), state, al, ns, ss)

(***************************************************************************)
(* Model.observe_property, snapshot_property, restore, restore_property.   *)
(***************************************************************************)
\* Model.__event(func): the trie after it; the node is the one at Keys(Record(<<>>, func))
event_nodes(func, ns) == get_node_for_ops(ns, Record(<<>>, func))

\* an observe_property that connects callback twice and returns the second token
ObserveFromTwice(func, cb, ops, value, ns, ss) ==
    [nodes |-> event_nodes(func, ns),
     subs |-> Event_connect(Event_connect(ss, Keys(ops), cb), Keys(ops), cb),
     calls |-> IF IsRaise(value) THEN <<>> ELSE <<[cb |-> cb, value |-> value]>>,
     logged |-> IF IsRaise(value) THEN value ELSE None]

\* Model.observe_property(func, callback), callback being the new callback cb;
\* value is what __get_value_for_ops(ops) returned or raised
\* an observe_property that emits on the node's event instead of calling callback
ObserveFromEmitting(func, cb, ops, value, ns, ss) ==
    [nodes |-> event_nodes(func, ns),
     subs |-> Event_connect(ss, Keys(ops), cb),
     calls |-> IF IsRaise(value) THEN <<>>
               ELSE Event_emit(Event_connect(ss, Keys(ops), cb), Keys(ops), value),
     logged |-> IF IsRaise(value) THEN value ELSE None]
ObserveFrom(func, cb, ops, value, ns, ss) ==
    [nodes |-> event_nodes(func, ns),
     subs |-> Event_connect(ss, Keys(ops), cb),
     calls |-> IF IsRaise(value) THEN <<>> ELSE <<[cb |-> cb, value |-> value]>>,
     logged |-> IF IsRaise(value) THEN value ELSE None]
observe_property(func, cb, state, ns, ss) ==
    ObserveFrom(func, cb, Record(<<>>, func),
                get_value_for_ops(state, Record(<<>>, func)), ns, ss)

\* Model.snapshot_property(property): copy.deepcopy(property(self.state)), a value
\* equal to the subtree and sharing no object with it, or the exception raised
snapshot_property(property, state) == get_value_for_ops(state, Record(<<>>, property))

\* Model.restore(snapshot): the state becomes a deep copy of snapshot, which shares
\* no object with what the caller holds
restore(snapshot, ns, ss) ==
    Outcome(snapshot, [held |-> snapshot, shared |-> {}],
            fire_all_child_events(Quiet(ns), ss, <<>>, snapshot), None, <<>>)

\* op.execute_raw(obj) on the Proxy that update_state hands to `update`: the access
\* it makes on the proxy
execute_raw(op) ==
    IF op.op = "GetAttr" THEN ReadAttr(op.key)
    ELSE IF op.op = "SetAttr" THEN WriteAttr(op.key, op.value)
    ELSE IF op.op = "GetItem" THEN ReadItem(op.key)
    ELSE IF op.op = "SetItem" THEN WriteItem(op.key, op.value)
    ELSE Invoke(op.value.v)

\* the ops of restore_property: the last read rewritten to a write of snapshot
RestoreOps(ops, snapshot) ==
    [i \in 1..Len(ops) |->
        IF i < Len(ops) THEN ops[i]
        ELSE IF ops[i].op = "GetAttr" THEN SetAttr(ops[i].key, snapshot)
        ELSE SetItem(ops[i].key, snapshot)]

IsMutable(v) == v.k \in {"list", "dict", "Person", "AppState"}

\* Model.restore_property(snapshot, property): the write stores the object snapshot
\* itself, which the caller holds
Restored(out, snapshot, path) ==
    IF out.stmts # <<>> /\ IsMutable(snapshot) THEN [out EXCEPT !.alias.shared = {path}]
    ELSE out
RestoreUpdate(raw) == [i \in 1..Len(raw) |-> execute_raw(raw[i])]
RestoreFrom(snapshot, ops, state, ns, ss) ==
    IF Len(ops) = 0 \/ Last(ops).op \notin {"GetAttr", "GetItem"}
    THEN Outcome(state, [held |-> snapshot, shared |-> {}], Quiet(ns),
                 Raise("AssertionError"), <<>>)
    ELSE Restored(update_state(RestoreUpdate(RestoreOps(ops, snapshot)), state,
                               [held |-> snapshot, shared |-> {}], ns, ss),
                  snapshot, Keys(ops))
restore_property(snapshot, property, state, ns, ss) ==
    RestoreFrom(snapshot, Record(<<>>, property), state, ns, ss)

(***************************************************************************)
(* The inputs of the calls.                                                *)
(***************************************************************************)
Halpert == Person(Str("Halpert"))
Beesly == Person(Str("Beesly"))
LastNames == {Str("Halpert"), Str("Beesly")}
Counts == {Str("1"), Str("2")}
Ratios == {Float("0.5"), NaN}
EmployeeLists == {List(<<>>), List(<<Halpert>>), List(<<Halpert, Beesly>>)}

InitialStates ==
    {AppState(List(<<>>), Str("1"), Float("0.5")),
     AppState(List(<<Halpert, Beesly>>), Str("1"), NaN)}

\* lambda x: x.employees[i].last_name and its prefixes, lambda x: x.count
Employees == <<ReadAttr("employees")>>
Employee(i) == <<ReadAttr("employees"), ReadItem(i)>>
LastName(i) == <<ReadAttr("employees"), ReadItem(i), ReadAttr("last_name")>>
Properties ==
    {<<>>, Employees, Employee("0"), Employee("1"), LastName("1"), <<ReadAttr("count")>>}

\* the statements state.employees[i].last_name = v, state.employees[i] = p,
\* state.employees.append(p), .pop(), .clear(), state.employees = l, state.count = c
SetLastName(i, v) == Employee(i) \o <<WriteAttr("last_name", v)>>
SetEmployee(i, p) == Employees \o <<WriteItem(i, p)>>
AppendEmployee(p) == Employees \o <<ReadAttr("append"), Invoke(<<p>>)>>
PopEmployee == Employees \o <<ReadAttr("pop"), Invoke(<<>>)>>
ClearEmployees == Employees \o <<ReadAttr("clear"), Invoke(<<>>)>>
SetEmployees(l) == <<WriteAttr("employees", l)>>
SetCount(c) == <<WriteAttr("count", c)>>

Statements ==
    {SetLastName(i, v) : i \in {"0", "1"}, v \in LastNames}
        \cup {SetEmployee("1", Halpert), SetEmployee("2", Halpert)}
        \cup {AppendEmployee(Beesly), PopEmployee, ClearEmployees}

\* the path functions given to update_state: one statement, two statements, and a
\* function that ends in a read
UpdateFuncs ==
    Statements
        \cup {SetLastName("1", v) \o SetEmployees(l) : v \in LastNames, l \in EmployeeLists}
        \cup {SetCount(c) \o SetLastName("0", Str("Beesly")) : c \in Counts}
        \cup {Employees, SetCount(Str("2")) \o Employees}

\* the keyword arguments given to update_properties
Kw(key, value) == [key |-> key, value |-> value]
Kwargs ==
    {<<Kw("count", c)>> : c \in Counts}
        \cup {<<Kw("employees", l)>> : l \in EmployeeLists}
        \cup {<<Kw("count", c), Kw("ratio", r)>> : c \in Counts, r \in Ratios}
        \cup {<<Kw("count", c), Kw("employees", List(<<Halpert>>))>> : c \in Counts}

\* the values given to restore and restore_property, with the property restored
RestoredStates ==
    {AppState(List(<<Beesly>>), Str("2"), Float("0.5")),
     AppState(List(<<Halpert, Beesly>>), Str("1"), NaN)}
RestoredProperties ==
    {[property |-> Employees, snapshot |-> l] : l \in EmployeeLists}
        \cup {[property |-> Employee("0"), snapshot |-> Halpert],
              [property |-> LastName("1"), snapshot |-> Str("Halpert")],
              [property |-> <<>>, snapshot |-> Str("Halpert")]}

\* no list of the state is longer than MaxLen
RECURSIVE ListsBounded(_)
ListsBounded(v) ==
    IF v.k = "list"
    THEN Len(v.v) <= MaxLen /\ \A i \in 1..Len(v.v) : ListsBounded(v.v[i])
    ELSE IF IsDataclass(v) \/ v.k = "dict"
    THEN \A key \in DOMAIN v.v : ListsBounded(v.v[key])
    ELSE TRUE

(***************************************************************************)
(* The state machine: one action per call of the API.                      *)
(***************************************************************************)
\* the record of a call that `last` keeps
LastCall(call, ops, value, cb, raised, stmts) ==
    [call |-> call, ops |-> ops, value |-> value, cb |-> cb, pre |-> current_state,
     raised |-> raised, stmts |-> stmts]

Init ==
    /\ current_state \in InitialStates
    /\ nodes = <<>>
    /\ subs = <<>>
    /\ held = None
    /\ shared = {}
    /\ steps = 0
    /\ last = [call |-> "init", ops |-> <<>>, value |-> None, cb |-> 0,
               pre |-> current_state, raised |-> None, stmts |-> <<>>]
    /\ emits = <<>>
    /\ calls = <<>>

\* the variables after a call of the Model with outcome out
Becomes(out, call, ops, value) ==
    /\ ListsBounded(out.state)
    /\ current_state' = out.state
    /\ held' = out.alias.held
    /\ shared' = out.alias.shared
    /\ nodes' = out.nodes
    /\ emits' = out.emits
    /\ calls' = out.calls
    /\ last' = LastCall(call, ops, value, 0, out.raised, out.stmts)
    /\ steps' = steps + 1
    /\ UNCHANGED subs

\* the variables after observe_property has connected callback cb
Observed(out, ops, cb) ==
    /\ nodes' = out.nodes
    /\ subs' = out.subs
    /\ calls' = out.calls
    /\ emits' = <<>>
    /\ last' = LastCall("observe_property", ops, out.logged, cb, None, <<>>)
    /\ steps' = steps + 1
    /\ UNCHANGED <<current_state, held, shared>>

\* the variables after snapshot_property has returned (or raised) value
Snapshot(value, ops) ==
    /\ held' = IF IsRaise(value) THEN held ELSE value
    /\ shared' = IF IsRaise(value) THEN shared ELSE {}
    /\ last' = LastCall("snapshot_property", ops, value, 0,
                        IF IsRaise(value) THEN value ELSE None, <<>>)
    /\ emits' = <<>>
    /\ calls' = <<>>
    /\ steps' = steps + 1
    /\ UNCHANGED <<current_state, nodes, subs>>

Alias == [held |-> held, shared |-> shared]

ObserveProperty ==
    /\ steps < MaxSteps
    /\ Len(subs) < MaxObservers
    /\ \E func \in Properties :
        Observed(observe_property(func, Len(subs) + 1, current_state, nodes, subs),
                 Record(<<>>, func), Len(subs) + 1)

UpdateState ==
    /\ steps < MaxSteps
    /\ \E func \in UpdateFuncs :
        Becomes(update_state(func, current_state, Alias, nodes, subs),
                "update_state", Record(<<>>, func), None)

UpdateProperties ==
    /\ steps < MaxSteps
    /\ \E kwargs \in Kwargs :
        Becomes(update_properties(kwargs, current_state, Alias, nodes, subs),
                "update_properties", Record(<<>>, SetAttrs(kwargs)), None)

SnapshotProperty ==
    /\ steps < MaxSteps
    /\ \E property \in Properties :
        Snapshot(snapshot_property(property, current_state), Record(<<>>, property))

Restore ==
    /\ steps < MaxSteps
    /\ \E snapshot \in RestoredStates :
        Becomes(restore(snapshot, nodes, subs), "restore", <<>>, snapshot)

RestoreProperty ==
    /\ steps < MaxSteps
    /\ \E r \in RestoredProperties :
        Becomes(restore_property(r.snapshot, r.property, current_state, nodes, subs),
                "restore_property", Record(<<>>, r.property), r.snapshot)

\* the caller changes the object it holds, in place: it appends to a list, it renames
\* a Person, it sets the count of an AppState
Mutated(v) ==
    IF v.k = "list" THEN List(Append(v.v, Halpert))
    ELSE IF v.k = "Person" THEN Person(Str("Schrute"))
    ELSE [v EXCEPT !.v.count = Str("3")]

CallerMutatesHeld ==
    /\ steps < MaxSteps
    /\ held.k \in {"list", "Person", "AppState"}
    /\ held # Mutated(held)
    /\ held' = Mutated(held)
    /\ current_state' = IF shared = {} THEN current_state
                        ELSE Store(current_state, CHOOSE p \in shared : TRUE, held')
    /\ ListsBounded(held')
    /\ last' = LastCall("caller_mutates_held", <<>>, held, 0, None, <<>>)
    /\ emits' = <<>>
    /\ calls' = <<>>
    /\ steps' = steps + 1
    /\ UNCHANGED <<nodes, subs, shared>>

Next ==
    \/ ObserveProperty
    \/ UpdateState
    \/ UpdateProperties
    \/ SnapshotProperty
    \/ Restore
    \/ RestoreProperty
    \/ CallerMutatesHeld

Spec == Init /\ [][Next]_vars

(***************************************************************************)
(* Fields that hold None, NaN and numbers.  Nothing types a field at run   *)
(* time: ratio holds a float, NaN or None, and the list holds numbers.     *)
(***************************************************************************)
Numbers == {Float("0.5"), NaN}
ValueStates ==
    {AppState(List(<<n>>), Str("1"), r) : n \in Numbers, r \in Numbers \cup {None}}

\* lambda x: x.ratio, lambda x: x.employees[0] and the other paths observed
Ratio == <<ReadAttr("ratio")>>
ValueProperties == {<<>>, Ratio, <<ReadAttr("count")>>, Employees, Employee("0")}

\* state.ratio = v, state.employees[0] = v
SetRatio(v) == <<WriteAttr("ratio", v)>>
SetNumber(v) == Employees \o <<WriteItem("0", v)>>
\* the path functions: a write of a number, of NaN, of a str or of None; a function
\* that ends in a read; state.ratio.count = c, a write through the field ratio
ValueFuncs ==
    {SetRatio(v) : v \in Numbers \cup {Float("1.5"), Str("1"), None}}
        \cup {SetNumber(v) : v \in Numbers \cup {Str("1")}}
        \cup {Ratio, <<ReadAttr("count")>>, SetCount(Str("2")) \o Ratio}
        \cup {Ratio \o SetCount(Str("2")), SetCount(Str("2")) \o SetRatio(Float("1.5"))}

InitValues ==
    /\ current_state \in ValueStates
    /\ nodes = <<>>
    /\ subs = <<>>
    /\ held = None
    /\ shared = {}
    /\ steps = 0
    /\ last = [call |-> "init", ops |-> <<>>, value |-> None, cb |-> 0,
               pre |-> current_state, raised |-> None, stmts |-> <<>>]
    /\ emits = <<>>
    /\ calls = <<>>

ObserveValue ==
    /\ steps < MaxSteps
    /\ Len(subs) < MaxObservers
    /\ \E func \in ValueProperties :
        Observed(observe_property(func, Len(subs) + 1, current_state, nodes, subs),
                 Record(<<>>, func), Len(subs) + 1)

UpdateValue ==
    /\ steps < MaxSteps
    /\ \E func \in ValueFuncs :
        Becomes(update_state(func, current_state, Alias, nodes, subs),
                "update_state", Record(<<>>, func), None)

NextValues ==
    \/ ObserveValue
    \/ UpdateValue

SpecValues == InitValues /\ [][NextValues]_vars

(***************************************************************************)
(* _SubModel.  A submodel is the sequence of the root properties from the  *)
(* Model down to it: its parent is the submodel of Front(roots), and the   *)
(* Model itself is <<>>.  A root property and the function given to the    *)
(* submodel run on the one Proxy the Model made, so their accesses follow  *)
(* each other in one log.                                                  *)
(***************************************************************************)
\* the accesses of a sequence of functions called one after the other on the Proxy
RECURSIVE Flatten(_)
Flatten(funcs) == IF funcs = <<>> THEN <<>> ELSE Head(funcs) \o Flatten(Tail(funcs))

\* an observe_property of a submodel that gives property itself to the Model
SubModel_observe_unprojected(roots, property, cb, state, ns, ss) ==
    observe_property(property, cb, state, ns, ss)

\* _SubModel.observe_property(property, callback): cb is property(root_property(state))
RECURSIVE SubModel_observe_property(_, _, _, _, _, _)
SubModel_observe_property(roots, property, cb, state, ns, ss) ==
    IF roots = <<>> THEN observe_property(property, cb, state, ns, ss)
    ELSE SubModel_observe_property(Front(roots), Last(roots) \o property, cb, state, ns, ss)

\* _SubModel.update_state(func): update is func(root_property(state))
RECURSIVE SubModel_update_state(_, _, _, _, _, _)
SubModel_update_state(roots, func, state, al, ns, ss) ==
    IF roots = <<>> THEN update_state(func, state, al, ns, ss)
    ELSE SubModel_update_state(Front(roots), Last(roots) \o func, state, al, ns, ss)

\* _SubModel.update_properties(**kwargs): setattr(root_property(state), key, value) for
\* each key, given to the parent's update_state
RECURSIVE SubSetAttrs(_, _)
SubSetAttrs(root_property, kwargs) ==
    IF kwargs = <<>> THEN <<>>
    ELSE root_property \o <<WriteAttr(Head(kwargs).key, Head(kwargs).value)>>
             \o SubSetAttrs(root_property, Tail(kwargs))
SubModel_update_properties(roots, kwargs, state, al, ns, ss) ==
    IF roots = <<>> THEN update_properties(kwargs, state, al, ns, ss)
    ELSE SubModel_update_state(Front(roots), SubSetAttrs(Last(roots), kwargs),
                               state, al, ns, ss)

\* the submodels: of employees[1], of employees, and of [1] in the submodel of employees
SubModels == {<<Employee("1")>>, <<Employees>>, <<Employees, <<ReadItem("1")>>>>}
\* what a submodel's state is: a Person, or the list of them
IsPersonModel(roots) == roots # <<Employees>>
\* the properties observed through a submodel
SubProperties(roots) ==
    IF IsPersonModel(roots) THEN {<<>>, <<ReadAttr("last_name")>>}
    ELSE {<<ReadItem("1")>>, <<ReadItem("1"), ReadAttr("last_name")>>}
\* the functions given to a submodel's update_state, each the sequence of its statements
SubFuncs(roots) ==
    IF IsPersonModel(roots)
    THEN {<<<<WriteAttr("last_name", v)>>>> : v \in LastNames}
             \cup {<<<<WriteAttr("last_name", Str("Schrute"))>>,
                     <<WriteAttr("last_name", v)>>>> : v \in LastNames}
    ELSE {<<<<WriteItem("1", Halpert)>>>>,
          <<<<ReadItem("0"), WriteAttr("last_name", Str("Beesly"))>>>>,
          <<<<ReadItem("0"), WriteAttr("last_name", Str("Beesly"))>>,
            <<WriteItem("1", Halpert)>>>>}
SubKwargs == {<<Kw("last_name", v)>> : v \in LastNames}

\* the record of a call made through a submodel: root is the submodel, func what the
\* caller gave (for an update, the sequence of its statements)
SubCall(call, roots, func, ops, value, cb, raised, stmts) ==
    [call |-> call, ops |-> ops, value |-> value, cb |-> cb, pre |-> current_state,
     raised |-> raised, stmts |-> stmts, root |-> roots, func |-> func]

SubObserved(out, roots, property, cb) ==
    /\ nodes' = out.nodes
    /\ subs' = out.subs
    /\ calls' = out.calls
    /\ emits' = <<>>
    /\ last' = SubCall("submodel_observe_property", roots, property,
                       Record(<<>>, Flatten(roots) \o property), out.logged, cb, None, <<>>)
    /\ steps' = steps + 1
    /\ UNCHANGED <<current_state, held, shared>>

SubBecomes(out, call, roots, func, ops) ==
    /\ ListsBounded(out.state)
    /\ current_state' = out.state
    /\ held' = out.alias.held
    /\ shared' = out.alias.shared
    /\ nodes' = out.nodes
    /\ emits' = out.emits
    /\ calls' = out.calls
    /\ last' = SubCall(call, roots, func, ops, None, 0, out.raised, out.stmts)
    /\ steps' = steps + 1
    /\ UNCHANGED subs

SubObserveProperty ==
    /\ steps < MaxSteps
    /\ Len(subs) < MaxObservers
    /\ \E roots \in SubModels : \E property \in SubProperties(roots) :
        SubObserved(SubModel_observe_property(roots, property, Len(subs) + 1,
                                              current_state, nodes, subs),
                    roots, property, Len(subs) + 1)

SubUpdateState ==
    /\ steps < MaxSteps
    /\ \E roots \in SubModels : \E func \in SubFuncs(roots) :
        SubBecomes(SubModel_update_state(roots, Flatten(func), current_state, Alias,
                                         nodes, subs),
                   "submodel_update_state", roots, func,
                   Record(<<>>, Flatten(roots) \o Flatten(func)))

SubUpdateProperties ==
    /\ steps < MaxSteps
    /\ \E roots \in {r \in SubModels : IsPersonModel(r)} : \E kwargs \in SubKwargs :
        SubBecomes(SubModel_update_properties(roots, kwargs, current_state, Alias,
                                              nodes, subs),
                   "submodel_update_properties", roots, kwargs,
                   Record(<<>>, Flatten(Front(roots)) \o SubSetAttrs(Last(roots), kwargs)))

NextSub ==
    \/ ObserveProperty
    \/ SubObserveProperty
    \/ SubUpdateState
    \/ SubUpdateProperties
    \/ Restore

SpecSub == Init /\ [][NextSub]_vars

(***************************************************************************)
(* Tokens and waiting tasks.  The Event's side is modelled from its        *)
(* contract: a token disconnects its callback, and a task that awaits an   *)
(* Event is a listener that is resumed by the next emit and by no other.   *)
(***************************************************************************)
MaxEventSteps == 4

\* EventToken.disconnect() of the token of connection i
Token_disconnect(ss, i) == [ss EXCEPT ![i].connected = FALSE]

\* await event: the task becomes a one-shot listener of the Event at path
Event_wait(ss, path, task) ==
    Append(ss, [cb |-> task, path |-> path, connected |-> TRUE, once |-> TRUE])
IsWaiter(sub) == "once" \in DOMAIN sub
IsWaiting(ss, cb) == \E i \in 1..Len(ss) : ss[i].cb = cb /\ IsWaiter(ss[i])

\* what the emits of one call deliver: a waiting task takes the first value only
RECURSIVE Event_deliver(_, _, _)
Event_deliver(cs, ss, k) ==
    IF k > Len(cs) THEN <<>>
    ELSE (IF IsWaiting(ss, cs[k].cb) /\ \E m \in 1..(k - 1) : cs[m].cb = cs[k].cb
          THEN <<>> ELSE <<cs[k]>>)
         \o Event_deliver(cs, ss, k + 1)
\* the listeners after the call: a task that was resumed listens no more
Event_resume(ss, cs) ==
    [i \in 1..Len(ss) |->
        IF IsWaiter(ss[i]) /\ \E k \in 1..Len(cs) : cs[k].cb = ss[i].cb
        THEN [ss[i] EXCEPT !.connected = FALSE] ELSE ss[i]]

\* a wait_for_property that returns the Event of the root node
wait_for_root(property, ns) == [nodes |-> event_nodes(property, ns), path |-> <<>>]

\* Model.wait_for_property(property): self.event(property), the Event of the node
wait_for_property(property, ns) ==
    [nodes |-> event_nodes(property, ns), path |-> Keys(Record(<<>>, property))]

\* the paths observed and awaited, the updates and the states restored
EventProperties == {Employees, LastName("1")}
EventFuncs ==
    {SetLastName("1", v) : v \in LastNames}
        \cup {SetEmployees(l) : l \in EmployeeLists}
        \cup {SetLastName("1", Str("Halpert")) \o SetLastName("1", Str("Beesly"))}

EventObserve ==
    /\ steps < MaxEventSteps
    /\ Len(subs) < MaxObservers
    /\ \E func \in EventProperties :
        Observed(observe_property(func, Len(subs) + 1, current_state, nodes, subs),
                 Record(<<>>, func), Len(subs) + 1)

Disconnect ==
    /\ steps < MaxEventSteps
    /\ \E i \in 1..Len(subs) :
        /\ subs[i].connected
        /\ ~IsWaiter(subs[i])
        /\ subs' = Token_disconnect(subs, i)
        /\ last' = LastCall("disconnect", <<>>, None, subs[i].cb, None, <<>>)
    /\ emits' = <<>>
    /\ calls' = <<>>
    /\ steps' = steps + 1
    /\ UNCHANGED <<current_state, nodes, held, shared>>

Waiting(w, property, task) ==
    /\ nodes' = w.nodes
    /\ subs' = Event_wait(subs, w.path, task)
    /\ last' = LastCall("wait_for_property", Record(<<>>, property), None, task, None, <<>>)
    /\ emits' = <<>>
    /\ calls' = <<>>
    /\ steps' = steps + 1
    /\ UNCHANGED <<current_state, held, shared>>

WaitForProperty ==
    /\ steps < MaxEventSteps
    /\ Len(subs) < MaxObservers
    /\ \E property \in EventProperties :
        Waiting(wait_for_property(property, nodes), property, Len(subs) + 1)

\* the variables after a call of the Model with outcome out, tasks waiting
EventBecomes(out, call, ops, value) ==
    /\ ListsBounded(out.state)
    /\ current_state' = out.state
    /\ held' = out.alias.held
    /\ shared' = out.alias.shared
    /\ nodes' = out.nodes
    /\ emits' = out.emits
    /\ calls' = Event_deliver(out.calls, subs, 1)
    /\ subs' = Event_resume(subs, out.calls)
    /\ last' = LastCall(call, ops, value, 0, out.raised, out.stmts)
    /\ steps' = steps + 1

EventUpdate ==
    /\ steps < MaxEventSteps
    /\ \E func \in EventFuncs :
        EventBecomes(update_state(func, current_state, Alias, nodes, subs),
                     "update_state", Record(<<>>, func), None)

EventRestore ==
    /\ steps < MaxEventSteps
    /\ \E snapshot \in RestoredStates :
        EventBecomes(restore(snapshot, nodes, subs), "restore", <<>>, snapshot)

NextEvents ==
    \/ EventObserve
    \/ Disconnect
    \/ WaitForProperty
    \/ EventUpdate
    \/ EventRestore

SpecEvents == Init /\ [][NextEvents]_vars

(***************************************************************************)
(* A field that holds a map.  Nothing types a field at run time: employees *)
(* holds a dict of Persons by name, read by item and changed by item       *)
(* writes and by the dict's own methods.                                   *)
(***************************************************************************)
Schrute == Person(Str("Schrute"))
EmployeeMaps ==
    {Dict([jim |-> Halpert]), Dict([jim |-> Halpert, update |-> Beesly])}
MapStates == {AppState(d, Str("1"), Float("0.5")) : d \in EmployeeMaps}

\* lambda x: x.employees["jim"], x.employees["update"].last_name and their prefixes
MapProperties ==
    {<<>>, Employees, Employee("jim"), Employee("update"), LastName("update")}

\* state.employees.update({"jim": p}), state.employees.clear(), item and field writes
UpdateEmployees(d) == Employees \o <<ReadAttr("update"), Invoke(<<d>>)>>
MapFuncs ==
    {UpdateEmployees(Dict([jim |-> p])) : p \in {Halpert, Schrute}}
        \cup {ClearEmployees}
        \cup {SetEmployee(k, p) : k \in {"jim", "update"}, p \in {Beesly, Schrute}}
        \cup {SetLastName("update", Str("Halpert"))}
        \cup {SetEmployees(d) : d \in EmployeeMaps}

InitMaps ==
    /\ current_state \in MapStates
    /\ nodes = <<>>
    /\ subs = <<>>
    /\ held = None
    /\ shared = {}
    /\ steps = 0
    /\ last = [call |-> "init", ops |-> <<>>, value |-> None, cb |-> 0,
               pre |-> current_state, raised |-> None, stmts |-> <<>>]
    /\ emits = <<>>
    /\ calls = <<>>

ObserveMap ==
    /\ steps < MaxSteps
    /\ Len(subs) < MaxObservers
    /\ \E func \in MapProperties :
        Observed(observe_property(func, Len(subs) + 1, current_state, nodes, subs),
                 Record(<<>>, func), Len(subs) + 1)

UpdateMap ==
    /\ steps < MaxSteps
    /\ \E func \in MapFuncs :
        Becomes(update_state(func, current_state, Alias, nodes, subs),
                "update_state", Record(<<>>, func), None)

RestoreMap ==
    /\ steps < MaxSteps
    /\ \E snapshot \in MapStates :
        Becomes(restore(snapshot, nodes, subs), "restore", <<>>, snapshot)

NextMaps ==
    \/ ObserveMap
    \/ UpdateMap
    \/ RestoreMap

SpecMaps == InitMaps /\ [][NextMaps]_vars

(***************************************************************************)
(* Vocabulary of the properties.                                           *)
(***************************************************************************)
IsUpdateCall == last.call \in {"update_state", "update_properties"}
EmitPaths == [i \in 1..Len(emits) |-> emits[i].path]
Times(seq, x) == Cardinality({i \in 1..Len(seq) : seq[i] = x})
Comparable(p, q) == IsPrefix(p, q) \/ IsPrefix(q, p)
IsWrite(op) == op.op \in {"SetAttr", "SetItem"}
EndsStatement(op) == IsWrite(op) \/ op.op = "Call"

\* the path, from the state's root, of the write or invoke at position i of ops: the
\* keys of the statement it ends
StatementStart(ops, i) ==
    IF \E j \in 1..(i - 1) : EndsStatement(ops[j])
    THEN 1 + CHOOSE j \in 1..(i - 1) :
                 EndsStatement(ops[j]) /\ \A k \in (j + 1)..(i - 1) : ~EndsStatement(ops[k])
    ELSE 1
TargetPath(ops, i) == Keys(SubSeq(ops, StatementStart(ops, i), i))
TargetPaths(ops) == {TargetPath(ops, i) : i \in {j \in 1..Len(ops) : EndsStatement(ops[j])}}

\* the paths an update touches: the path of each write, and for an invoke the path of
\* the field whose method is invoked
TouchedPaths(ops) ==
    {IF ops[i].op = "Call" THEN Front(Front(TargetPath(ops, i))) ELSE TargetPath(ops, i) :
        i \in {j \in 1..Len(ops) : EndsStatement(ops[j])}}

\* the value the registered node at path has in state: the value its path leads to
\* through the operations the trie holds, or the exception on the way
NodeOps(path) ==
    [i \in 1..Len(path) |-> nodes[CHOOSE j \in 1..Len(nodes) :
                                       nodes[j].path = SubSeq(path, 1, i)].op]
NodeValue(state, path) ==
    IF \A i \in 1..Len(path) : HasNode(nodes, SubSeq(path, 1, i))
    THEN get_value_for_ops(state, NodeOps(path))
    ELSE Resolve(state, path)
Resolvable(state, path) == ~IsRaise(NodeValue(state, path))
NodePaths == {nodes[j].path : j \in 1..Len(nodes)}
WasCalled(cb) == \E k \in 1..Len(calls) : calls[k].cb = cb

(***************************************************************************)
(* C1.  A single update that changes exactly one field, at path P: the     *)
(* root channel emits exactly once and first, then the channel of every    *)
(* proper prefix of P exactly once in root-to-leaf order, then P's own     *)
(* channel, then every registered descendant node of P whose value is      *)
(* resolvable from the new value, depth-first, parent before children; no  *)
(* other channel emits.                                                    *)
(***************************************************************************)
C1_Case ==
    /\ IsUpdateCall
    /\ last.raised = None
    /\ Len(last.stmts) = 1
    /\ IsWrite(Last(last.stmts[1]))
C1_P == Keys(last.stmts[1])
C1_SingleChangeEmitsInOrder ==
    C1_Case =>
        /\ Len(emits) >= Len(C1_P) + 1
        /\ \A i \in 0..Len(C1_P) :
            /\ emits[i + 1].path = SubSeq(C1_P, 1, i)
            /\ Times(EmitPaths, SubSeq(C1_P, 1, i)) = 1
        /\ \A j \in (Len(C1_P) + 2)..Len(emits) :
            /\ IsProperPrefix(C1_P, emits[j].path)
            /\ emits[j].path \in NodePaths
            /\ \E i \in (Len(C1_P) + 1)..(j - 1) : emits[i].path = Front(emits[j].path)
        /\ \A d \in NodePaths :
            IsProperPrefix(C1_P, d) =>
                Times(EmitPaths, d) = IF Resolvable(current_state, d) THEN 1 ELSE 0
        /\ \A i, j, k \in (Len(C1_P) + 2)..Len(emits) :
            (i < j /\ j < k /\ IsPrefix(emits[i].path, emits[k].path))
                => IsPrefix(emits[i].path, emits[j].path)
C1_Witness ==
    /\ C1_Case
    /\ Len(C1_P) >= 2
    /\ \E j \in 1..Len(emits) : Len(emits[j].path) >= Len(C1_P) + 1

(***************************************************************************)
(* C2.  An update (update_state or update_properties) in which every       *)
(* statement's final write assigns the value already stored: no channel    *)
(* emits, the root included, no callback is invoked and the state is       *)
(* unchanged.                                                              *)
(***************************************************************************)
C2_Case ==
    /\ IsUpdateCall
    /\ last.ops # <<>>
    /\ IsWrite(Last(last.ops))
    /\ \A i \in 1..Len(last.ops) :
        /\ last.ops[i].op # "Call"
        /\ IsWrite(last.ops[i]) =>
            Resolve(last.pre, TargetPath(last.ops, i)) = last.ops[i].value
C2_NoChangeEmitsNothing ==
    C2_Case =>
        /\ emits = <<>>
        /\ calls = <<>>
        /\ current_state = last.pre
        /\ last.raised = None
C2_Witness ==
    /\ C2_Case
    /\ Len(last.ops) >= 2
    /\ \E i \in 1..Len(subs) : subs[i].path = <<>>
    /\ \E i \in 1..Len(subs) : subs[i].path \in TargetPaths(last.ops)

(***************************************************************************)
(* C3.  observe_property(P, cb) with P resolvable against the current      *)
(* state connects cb to the node for P and invokes cb exactly once, with   *)
(* the value stored at P; the state is not modified, no channel emits and  *)
(* no other subscriber is invoked.                                         *)
(***************************************************************************)
C3_Case ==
    /\ last.call = "observe_property"
    /\ ~IsRaise(Resolve(last.pre, Keys(last.ops)))
C3_ObserveCallsOnceWithCurrentValue ==
    C3_Case =>
        /\ calls = <<[cb |-> last.cb, value |-> Resolve(last.pre, Keys(last.ops))]>>
        /\ emits = <<>>
        /\ current_state = last.pre
        /\ Keys(last.ops) \in NodePaths \cup {<<>>}
        /\ Last(subs) = [cb |-> last.cb, path |-> Keys(last.ops), connected |-> TRUE]
        /\ \A i \in 1..(Len(subs) - 1) : subs[i].cb # last.cb
C3_Witness ==
    /\ C3_Case
    /\ Len(subs) = 2
    /\ subs[1].path = subs[2].path
    /\ Len(subs[1].path) >= 2

(***************************************************************************)
(* C4, as claimed.  After observe_property(P, cb), P below the root, an     *)
(* update invokes cb only if it touches P or a proper prefix of P: it      *)
(* writes there or invokes a method of the field there.                    *)
(***************************************************************************)
C4_CalledOnlyByWriteAtOrAbove ==
    \A i \in 1..Len(subs) :
        (IsUpdateCall /\ WasCalled(subs[i].cb) /\ subs[i].path # <<>>) =>
            \E q \in TouchedPaths(last.ops) : IsPrefix(q, subs[i].path)

(***************************************************************************)
(* C4, amended.  After observe_property(P, cb), an update invokes cb only  *)
(* if it writes or invokes at P, at a prefix of P or at a path below P.    *)
(***************************************************************************)
C4_CalledOnlyByWriteOnComparablePath ==
    \A i \in 1..Len(subs) :
        (IsUpdateCall /\ WasCalled(subs[i].cb)) =>
            \E q \in TargetPaths(last.ops) : Comparable(q, subs[i].path)
C4_Witness ==
    /\ IsUpdateCall
    /\ \E i, j \in 1..Len(subs) :
        /\ WasCalled(subs[i].cb)
        /\ subs[i].path # <<>>
        /\ \E q \in TargetPaths(last.ops) : IsProperPrefix(subs[i].path, q)
        /\ ~WasCalled(subs[j].cb)

(***************************************************************************)
(* C5.  observe_property(P, cb) with P not resolvable does not raise, does *)
(* not invoke cb and connects cb; a later update that makes P resolvable   *)
(* emits the value at P to cb.                                             *)
(***************************************************************************)
C5_UnresolvableObserveThenEmission ==
    /\ (last.call = "observe_property" /\ IsRaise(Resolve(last.pre, Keys(last.ops)))) =>
        /\ last.raised = None
        /\ calls = <<>>
        /\ Last(subs) = [cb |-> last.cb, path |-> Keys(last.ops), connected |-> TRUE]
    /\ \A i \in 1..Len(subs) :
        (/\ IsUpdateCall
         /\ last.raised = None
         /\ IsRaise(Resolve(last.pre, subs[i].path))
         /\ ~IsRaise(Resolve(current_state, subs[i].path))) =>
            \E k \in 1..Len(calls) :
                calls[k] = [cb |-> subs[i].cb,
                            value |-> Resolve(current_state, subs[i].path)]

(***************************************************************************)
(* C6.  In an update with several statements, a statement whose final      *)
(* write changes nothing is discarded: the root channel emits exactly      *)
(* once, a channel emits only if its path is the root, a prefix of the     *)
(* path of a retained statement, that path or a path below it, and after   *)
(* update_properties the channel of an unchanged field does not emit.      *)
(***************************************************************************)
C6_Case ==
    /\ IsUpdateCall
    /\ last.raised = None
    /\ last.stmts # <<>>
\* the keyword arguments of update_properties whose value is the one stored before
C6_UnchangedKeys ==
    {last.ops[i].key : i \in {j \in 1..Len(last.ops) :
                                  last.pre.v[last.ops[j].key] = last.ops[j].value}}
C6_ChangedKeys == {last.ops[i].key : i \in 1..Len(last.ops)} \ C6_UnchangedKeys
C6_UnchangedStatementIsDiscarded ==
    /\ C6_Case =>
        /\ Times(EmitPaths, <<>>) = 1
        /\ \A j \in 1..Len(emits) :
            \/ emits[j].path = <<>>
            \/ \E k \in 1..Len(last.stmts) : Comparable(emits[j].path, Keys(last.stmts[k]))
    /\ (last.call = "update_properties" /\ last.raised = None) =>
        /\ {Keys(last.stmts[k]) : k \in 1..Len(last.stmts)} = {<<key>> : key \in C6_ChangedKeys}
        /\ Times(EmitPaths, <<>>) = IF C6_ChangedKeys = {} THEN 0 ELSE 1
        /\ \A j \in 1..Len(emits) :
            emits[j].path = <<>> \/ emits[j].path[1] \in C6_ChangedKeys
C6_Witness ==
    /\ last.call = "update_properties"
    /\ last.raised = None
    /\ C6_ChangedKeys # {}
    /\ \E i \in 1..Len(subs) :
        /\ Len(subs[i].path) = 1
        /\ subs[i].path[1] \in C6_UnchangedKeys
        /\ ~WasCalled(subs[i].cb)
    /\ \E i \in 1..Len(subs) : WasCalled(subs[i].cb)

(***************************************************************************)
(* C7.  An update whose statement invokes a method through the recorded    *)
(* path, state.field.method(args), performs the call and emits on the root *)
(* channel and on the field's channel, for every callable and every value  *)
(* the callable returns.                                                   *)
(***************************************************************************)
C7_Case ==
    /\ last.call = "update_state"
    /\ Len(last.ops) = 3
    /\ last.ops[1].op = "GetAttr"
    /\ last.ops[2].op = "GetAttr"
    /\ last.ops[3].op = "Call"
    /\ last.pre.v[last.ops[1].key].k = "list"
\* what the callable does to the list of the field, and what it returns
C7_Effect == CallMethod(last.ops[2].key, last.ops[3].value.v, last.pre.v[last.ops[1].key])
C7_InvokeAlwaysEmits ==
    (C7_Case /\ ~IsRaise(C7_Effect.ret)) =>
        /\ current_state.v[last.ops[1].key] = C7_Effect.lst
        /\ last.raised = None
        /\ Times(EmitPaths, <<>>) = 1
        /\ Times(EmitPaths, <<last.ops[1].key>>) = 1

(***************************************************************************)
(* C8.  restore_property(v, P) always counts as a change: for every v, the *)
(* value stored at P included, it writes v at P and emits on P's channel   *)
(* and on the resolvable registered nodes below P.                         *)
(***************************************************************************)
C8_Case ==
    /\ last.call = "restore_property"
    /\ last.ops # <<>>
    /\ ~IsRaise(Resolve(last.pre, Keys(last.ops)))
C8_RestorePropertyAlwaysEmits ==
    C8_Case =>
        /\ Resolve(current_state, Keys(last.ops)) = last.value
        /\ last.raised = None
        /\ Times(EmitPaths, Keys(last.ops)) = 1
        /\ \A d \in NodePaths :
            (IsProperPrefix(Keys(last.ops), d) /\ Resolvable(current_state, d))
                => Times(EmitPaths, d) = 1

(***************************************************************************)
(* C9.  restore(s) replaces the state by a copy of s, and every registered *)
(* node, the root node included, whose path is resolvable against the new  *)
(* state emits the value at its path, parents before children.             *)
(***************************************************************************)
C9_RestoreEmitsEveryNode ==
    last.call = "restore" =>
        /\ current_state = last.value
        /\ \A d \in NodePaths \cup {<<>>} :
            Resolvable(current_state, d) =>
                \E j \in 1..Len(emits) :
                    /\ emits[j] = [path |-> d, value |-> NodeValue(current_state, d)]
                    /\ d # <<>> => \E i \in 1..(j - 1) : emits[i].path = Front(d)

(***************************************************************************)
(* C10.  No object of the state is the object of a value returned by       *)
(* snapshot_property or given to restore / restore_property: when the      *)
(* caller changes such a value after the call, the state reads as before.  *)
(***************************************************************************)
C10_NoAliasWithCallerValues ==
    last.call = "caller_mutates_held" => current_state = last.pre

(***************************************************************************)
(* C11.  An update_state whose path function ends in a bare read, a read   *)
(* followed by no write and no invoke, raises the assertion for every      *)
(* state and every value the read resolves to, and no channel emits.       *)
(***************************************************************************)
C11_Case ==
    /\ last.call = "update_state"
    /\ last.ops # <<>>
    /\ ~EndsStatement(Last(last.ops))
    /\ ~IsRaise(Resolve(current_state, TargetPath(last.ops, Len(last.ops))))
C11_BareReadAlwaysAsserts ==
    C11_Case =>
        /\ last.raised = Raise("AssertionError")
        /\ emits = <<>>
        /\ calls = <<>>

(***************************************************************************)
(* C12.  An update_state call of reads and writes ends in one of two       *)
(* outcomes: it returns with its changed statements applied and notified,  *)
(* the root first; or the state is as before and nothing is emitted.  No   *)
(* call modifies the state and emits nothing, or raises part-way.          *)
(***************************************************************************)
C12_Case ==
    /\ last.call = "update_state"
    /\ \A i \in 1..Len(last.ops) : last.ops[i].op # "Call"
C12_AppliedAndNotifiedOrNothing ==
    C12_Case =>
        \/ /\ current_state = last.pre
           /\ emits = <<>>
        \/ /\ last.raised = None
           /\ last.stmts # <<>>
           /\ emits # <<>>
           /\ emits[1] = [path |-> <<>>, value |-> current_state]

(***************************************************************************)
(* C13.  A write of NaN to a field or an item that holds NaN is no change  *)
(* and no channel emits; a write of any value that is not NaN to a field   *)
(* that holds NaN, or of NaN to a field that holds another value, is a     *)
(* change: the value is stored and the root and the field's channel emit.  *)
(***************************************************************************)
C13_Case ==
    /\ last.call = "update_state"
    /\ last.ops # <<>>
    /\ IsWrite(Last(last.ops))
    /\ \A i \in 1..(Len(last.ops) - 1) : ~EndsStatement(last.ops[i])
    /\ ~IsRaise(Resolve(last.pre, Keys(last.ops)))
C13_Old == Resolve(last.pre, Keys(last.ops))
C13_New == Last(last.ops).value
C13_NaNChangeDetection ==
    /\ (C13_Case /\ IsNaN(C13_Old) /\ IsNaN(C13_New)) =>
        /\ emits = <<>>
        /\ last.raised = None
        /\ current_state = last.pre
    /\ (C13_Case /\ IsNaN(C13_Old) # IsNaN(C13_New)) =>
        /\ last.raised = None
        /\ Resolve(current_state, Keys(last.ops)) = C13_New
        /\ Times(EmitPaths, <<>>) = 1
        /\ Times(EmitPaths, Keys(last.ops)) = 1

(***************************************************************************)
(* C14.  observe_property(Q, cb) through a submodel projected at S (also a *)
(* submodel of a submodel) connects cb to the node of the path S followed  *)
(* by Q, the node of a direct observe_property on the Model, with the same *)
(* initial call; in every later update and restore the subscribers of one  *)
(* path receive the same sequence of values.                               *)
(***************************************************************************)
C14_Path == Keys(Record(<<>>, Flatten(last.root) \o last.func))
\* the values a callback has received in the call made last
C14_Received(cb) ==
    [k \in 1..Len(SelectSeq(calls, LAMBDA c : c.cb = cb)) |->
        SelectSeq(calls, LAMBDA c : c.cb = cb)[k].value]
C14_SubObserveIsDirectObserve ==
    /\ last.call = "submodel_observe_property" =>
        /\ Last(subs) = [cb |-> last.cb, path |-> C14_Path, connected |-> TRUE]
        /\ C14_Path \in NodePaths \cup {<<>>}
        /\ calls = IF IsRaise(Resolve(current_state, C14_Path)) THEN <<>>
                   ELSE <<[cb |-> last.cb, value |-> Resolve(current_state, C14_Path)]>>
        /\ emits = <<>>
        /\ current_state = last.pre
    /\ last.call \in {"submodel_update_state", "submodel_update_properties", "restore"} =>
        \A i, j \in 1..Len(subs) :
            subs[i].path = subs[j].path =>
                C14_Received(subs[i].cb) = C14_Received(subs[j].cb)
C14_Witness ==
    /\ last.call = "submodel_update_state"
    /\ Len(last.root) = 2
    /\ Len(subs) = 2
    /\ subs[1].path = subs[2].path
    /\ Len(subs[1].path) = 3
    /\ C14_Received(subs[2].cb) # <<>>

(***************************************************************************)
(* C19.  update_state(f) of a submodel with projection proj does to the    *)
(* state, and emits, what the Model's update_state does with the function  *)
(* that applies every statement of f to proj(state), for every f, one of   *)
(* several writes included.                                                *)
(***************************************************************************)
\* the function of the Model that applies each statement of func beneath roots
RECURSIVE C19_RootFunc(_, _)
C19_RootFunc(roots, func) ==
    IF func = <<>> THEN <<>>
    ELSE Flatten(roots) \o Head(func) \o C19_RootFunc(roots, Tail(func))
C19_OnRoot ==
    update_state(C19_RootFunc(last'.root, last'.func), current_state, Alias, nodes, subs)
C19_SubUpdateIsRootUpdate ==
    [][last'.call = "submodel_update_state" =>
        /\ current_state' = C19_OnRoot.state
        /\ emits' = C19_OnRoot.emits
        /\ calls' = C19_OnRoot.calls
        /\ last'.raised = C19_OnRoot.raised]_vars

\* the values emitted at path, and the values a callback received, in order
ValuesAt(es, path) ==
    [k \in 1..Len(SelectSeq(es, LAMBDA e : e.path = path)) |->
        SelectSeq(es, LAMBDA e : e.path = path)[k].value]
ReceivedIn(cs, cb) ==
    [k \in 1..Len(SelectSeq(cs, LAMBDA c : c.cb = cb)) |->
        SelectSeq(cs, LAMBDA c : c.cb = cb)[k].value]
FirstOf(seq) == IF seq = <<>> THEN <<>> ELSE <<seq[1]>>
IsEmittingCall(l) == l.call \in {"update_state", "restore"}

(***************************************************************************)
(* C15.  Once the token of observe_property(P, cb) is disconnected, no     *)
(* later update or restore invokes cb, while every callback still          *)
(* connected at a path receives each value emitted there, and a task       *)
(* waiting there the first of them.                                        *)
(***************************************************************************)
C15_DisconnectedIsSilent ==
    [][IsEmittingCall(last') =>
        \A i \in 1..Len(subs) :
            ReceivedIn(calls', subs[i].cb) =
                IF ~subs[i].connected THEN <<>>
                ELSE IF IsWaiter(subs[i])
                THEN FirstOf(ValuesAt(emits', subs[i].path))
                ELSE ValuesAt(emits', subs[i].path)]_vars
C15_Witness ==
    /\ IsEmittingCall(last)
    /\ Len(subs) = 2
    /\ subs[1].path = subs[2].path
    /\ ~IsWaiter(subs[1])
    /\ ~subs[1].connected
    /\ subs[2].connected
    /\ WasCalled(subs[2].cb)

(***************************************************************************)
(* C16.  wait_for_property(P) suspends the task on the Event of the node   *)
(* for P without resuming it; the task stays suspended while that channel  *)
(* does not emit, and the update or restore that next emits there resumes  *)
(* it once, with the value emitted, the value at P in the new state.       *)
(***************************************************************************)
C16_WaitResumesWithNextValue ==
    /\ last.call = "wait_for_property" =>
        /\ Last(subs) = [cb |-> last.cb, path |-> Keys(last.ops), connected |-> TRUE,
                         once |-> TRUE]
        /\ Keys(last.ops) \in NodePaths
        /\ calls = <<>>
        /\ emits = <<>>
        /\ current_state = last.pre
    /\ \A i \in 1..Len(subs) :
        IsWaiter(subs[i]) =>
            /\ WasCalled(subs[i].cb) =>
                /\ IsEmittingCall(last)
                /\ ~subs[i].connected
                /\ Times(EmitPaths, subs[i].path) >= 1
                /\ ReceivedIn(calls, subs[i].cb) = FirstOf(ValuesAt(emits, subs[i].path))
                /\ ReceivedIn(calls, subs[i].cb) = <<Resolve(current_state, subs[i].path)>>
            /\ subs[i].connected => Times(EmitPaths, subs[i].path) = 0
C16_Witness ==
    /\ last.call = "update_state"
    /\ \E i \in 1..Len(subs) :
        /\ IsWaiter(subs[i])
        /\ Len(subs[i].path) = 3
        /\ ReceivedIn(calls, subs[i].cb) # <<>>
        /\ ReceivedIn(calls, subs[i].cb) # <<Resolve(last.pre, subs[i].path)>>

(***************************************************************************)
(* C17.  In a successful update, a subscribed node below the path of a     *)
(* retained write emits, with its value, exactly when that value can be    *)
(* derived from the new state, and otherwise is skipped, stays in the trie *)
(* and keeps its subscriber; a node skipped by one update emits in the     *)
(* next update that leaves its path resolvable.                            *)
(***************************************************************************)
C17_Below(i) ==
    /\ IsUpdateCall
    /\ last.raised = None
    /\ \E k \in 1..Len(last.stmts) :
        /\ IsWrite(Last(last.stmts[k]))
        /\ IsProperPrefix(Keys(last.stmts[k]), subs[i].path)
C17_Skipped(i) == C17_Below(i) /\ ~Resolvable(current_state, subs[i].path)
C17_Emitted(i) ==
    \E k \in 1..Len(calls) :
        calls[k] = [cb |-> subs[i].cb, value |-> NodeValue(current_state, subs[i].path)]
C17_CascadeSkips ==
    \A i \in 1..Len(subs) :
        C17_Below(i) =>
            /\ subs[i].connected
            /\ subs[i].path \in NodePaths
            /\ Resolvable(current_state, subs[i].path) => C17_Emitted(i)
            /\ ~Resolvable(current_state, subs[i].path) => ~WasCalled(subs[i].cb)
C17_SkippedBranchEmitsAgain ==
    [][/\ C17_CascadeSkips'
       /\ \A i \in 1..Len(subs) :
           (/\ C17_Skipped(i)
            /\ (IsUpdateCall /\ last.raised = None)'
            /\ Resolvable(current_state, subs[i].path)') => C17_Emitted(i)']_vars

(***************************************************************************)
(* C18.  In update_state a statement ends at a write or an invoke and at   *)
(* no read: every write of an update that returns is stored at the path    *)
(* read by its own statement unless a later write replaces it, and a field *)
(* of the state changes only if a write or an invoke of the update has a   *)
(* path through that field.                                                *)
(***************************************************************************)
C18_Writes == {i \in 1..Len(last.ops) : IsWrite(last.ops[i])}
C18_Fields == {<<"employees">>, <<"count">>, <<"ratio">>}
C18_StatementsEndAtWrites ==
    last.call = "update_state" =>
        /\ last.raised = None =>
            \A i \in C18_Writes :
                \/ \E j \in C18_Writes :
                    j > i /\ IsPrefix(TargetPath(last.ops, j), TargetPath(last.ops, i))
                \/ Resolve(current_state, TargetPath(last.ops, i)) = last.ops[i].value
        /\ \A f \in C18_Fields :
            Resolve(current_state, f) # Resolve(last.pre, f) =>
                \E q \in TouchedPaths(last.ops) : IsPrefix(f, q)

(***************************************************************************)
(* C20.  An update_state call with several changed statements emits the    *)
(* values of the state after all its writes: the root once and first, then *)
(* for each retained statement in the order of the path function one whole *)
(* group, the prefixes of its path root to leaf, its terminal node and     *)
(* registered nodes below it, and nothing else.                            *)
(***************************************************************************)
C20_Case ==
    /\ last.call = "update_state"
    /\ Len(last.stmts) >= 2
\* the emissions from..(to - 1) are the notification group of the statement at path
C20_Group(path, from, to) ==
    /\ to - from >= Len(path)
    /\ \A j \in 1..Len(path) : EmitPaths[from + j - 1] = SubSeq(path, 1, j)
    /\ \A m \in (from + Len(path))..(to - 1) : IsProperPrefix(path, EmitPaths[m])
C20_GroupsInStatementOrder ==
    C20_Case =>
        /\ emits # <<>>
        /\ EmitPaths[1] = <<>>
        /\ Times(EmitPaths, <<>>) = 1
        /\ \A m \in 1..Len(emits) :
            emits[m].value = NodeValue(current_state, emits[m].path)
        /\ \E b \in [1..(Len(last.stmts) + 1) -> 2..(Len(emits) + 1)] :
            /\ b[1] = 2
            /\ b[Len(last.stmts) + 1] = Len(emits) + 1
            /\ \A k \in 1..Len(last.stmts) :
                C20_Group(Keys(last.stmts[k]), b[k], b[k + 1])

(***************************************************************************)
(* C21.  Every value emitted on a node's channel by an update or a restore *)
(* is a value found at the node's path in the model's state as the call    *)
(* leaves it, and every value a callback receives is the value at the path *)
(* it subscribed to: the root channel carries the whole state, and after a *)
(* container is replaced the subscriber of one of its indexes receives the *)
(* new container's element.                                                *)
(***************************************************************************)
\* the values at key in obj: its item and its attribute of that name, as far as any
C21_Children(obj, key) ==
    {x \in {PyGetItem(obj, key), PyGetAttr(obj, key)} : ~IsRaise(x)}
RECURSIVE C21_ValuesAt(_, _)
C21_ValuesAt(obj, path) ==
    IF path = <<>> THEN {obj}
    ELSE UNION {C21_ValuesAt(c, Tail(path)) : c \in C21_Children(obj, Head(path))}
C21_EmittedValueIsStateValue ==
    /\ \A m \in 1..Len(emits) :
        emits[m].value \in C21_ValuesAt(current_state, emits[m].path)
    /\ \A k \in 1..Len(calls) :
        \E i \in 1..Len(subs) :
            /\ subs[i].cb = calls[k].cb
            /\ calls[k].value = Resolve(current_state, subs[i].path)

====
